---- MODULE Spec2Model ----
(***************************************************************************)
(* Model of src/pdf2excel.py: a Streamlit script that is re-executed from  *)
(* top to bottom after every user interaction.  One action of the model is *)
(* one user interaction followed by one complete execution of the script.  *)
(*                                                                         *)
(* Text is modelled as a sequence of tokens (one-character strings, plus   *)
(* the token "Column_"), so that str.strip() and the f-string Column_N are *)
(* computed rather than assumed.  Python's None is the value None below.   *)
(***************************************************************************)
EXTENDS Integers, Sequences, FiniteSets, TLC

VARIABLES
    uploaded_file,      \* value of st.file_uploader (line 22)
    df,                 \* st.session_state.df
    selected_columns,   \* st.session_state.selected_columns
    column_order,       \* st.session_state.column_order
    w_merge,            \* widget state of the st.radio of line 84
    w_table,            \* widget state of the st.selectbox of line 123
    w_select_all,       \* widget state of the st.checkbox of line 156
    w_multi,            \* widget state of the st.multiselect of line 163
    w_pos,              \* widget states of the st.selectbox col_order_<p>, line 205
    msgs,               \* st.error / st.warning / st.info shown by the last run
    excel,              \* the sheet written by the last run (lines 230-232)
    event               \* the user interaction that triggered the last run

vars == <<uploaded_file, df, selected_columns, column_order, w_merge, w_table,
          w_select_all, w_multi, w_pos, msgs, excel, event>>

-----------------------------------------------------------------------------
(* Values *)

None == <<"None">>

Digit == <<"1", "2", "3", "4", "5", "6", "7", "8", "9">>

Range(s) == {s[i] : i \in DOMAIN s}

IsIn(x, s) == \E i \in DOMAIN s : s[i] = x

RECURSIVE SeqSum(_)
SeqSum(s) == IF s = <<>> THEN 0 ELSE Head(s) + SeqSum(Tail(s))

RECURSIVE Flatten(_)
Flatten(ss) == IF ss = <<>> THEN <<>> ELSE Head(ss) \o Flatten(Tail(ss))

\* list.index(x): position (1-based here) of the first occurrence
IndexOf(x, s) == CHOOSE i \in DOMAIN s : s[i] = x /\ \A j \in 1..(i - 1) : s[j] # x

\* list.pop() in place of list.remove(x)
RemoveLast(x, s) == SubSeq(s, 1, Len(s) - 1)

\* list.remove(x): drops the first occurrence
Remove(x, s) ==
    LET i == IndexOf(x, s)
    IN  [j \in 1..(Len(s) - 1) |-> IF j < i THEN s[j] ELSE s[j + 1]]

NoDuplicates(s) == \A i, j \in DOMAIN s : i # j => s[i] # s[j]

Count(x, s) == Cardinality({i \in DOMAIN s : s[i] = x})

\* same elements with the same multiplicities
IsPermutation(s, t) ==
    /\ Len(s) = Len(t)
    /\ \A x \in Range(s) \cup Range(t) : Count(x, s) = Count(x, t)

-----------------------------------------------------------------------------
(* Step 1, lines 38-72: one detected table -> one DataFrame *)

RECURSIVE LStrip(_)
LStrip(s) == IF s # <<>> /\ Head(s) = " " THEN LStrip(Tail(s)) ELSE s

RECURSIVE RStrip(_)
RStrip(s) ==
    IF s # <<>> /\ s[Len(s)] = " " THEN RStrip(SubSeq(s, 1, Len(s) - 1)) ELSE s

\* str(h).strip()
Strip(s) == RStrip(LStrip(s))

\* lines 47-50; i is enumerate's index, 0-based
CleanHeader(h, i) ==
    IF h # None /\ h # <<>> /\ Strip(h) # <<>>
    THEN Strip(h)
    ELSE <<"Column_", Digit[i + 1]>>

\* lines 45-50
cleaned_headers(headers) ==
    [k \in 1..Len(headers) |-> CleanHeader(headers[k], k - 1)]

MaxLen(rows) ==
    IF rows = <<>> THEN 0
    ELSE CHOOSE n \in {Len(rows[k]) : k \in DOMAIN rows} :
            \A k \in DOMAIN rows : Len(rows[k]) <= n

\* pandas pads a short row of a list-of-lists with None up to the longest row
PadRow(row, n) == [j \in 1..n |-> IF j <= Len(row) THEN row[j] ELSE None]

\* line 54, pd.DataFrame(data_rows, columns=cleaned_headers): raises ValueError
\* when the longest row's length differs from the number of column names
DataFrame(data_rows, columns) ==
    LET n == MaxLen(data_rows)
    IN  IF n # Len(columns)
        THEN [raised |-> TRUE, columns |-> <<>>, rows |-> <<>>]
        ELSE [raised |-> FALSE, columns |-> columns,
              rows |-> [k \in DOMAIN data_rows |-> PadRow(data_rows[k], n)]]

AllNone(row) == \A j \in DOMAIN row : row[j] = None

\* line 57, dropna(how='all')
dropna_rows(t) ==
    [t EXCEPT !.rows = SelectSeq(t.rows, LAMBDA r : ~AllNone(r))]

RECURSIVE KeepPositions(_, _, _)
KeepPositions(s, keep, j) ==
    IF j > Len(s) THEN <<>>
    ELSE (IF j \in keep THEN <<s[j]>> ELSE <<>>) \o KeepPositions(s, keep, j + 1)

\* line 60, dropna(axis=1, how='all'): a column with no non-None cell goes,
\* which is every column when no row is left
dropna_columns(t) ==
    LET keep == {j \in DOMAIN t.columns :
                    \E k \in DOMAIN t.rows : t.rows[k][j] # None}
    IN  [t EXCEPT !.columns = KeepPositions(t.columns, keep, 1),
                  !.rows = [k \in DOMAIN t.rows |-> KeepPositions(t.rows[k], keep, 1)]]

\* DataFrame.empty
IsEmpty(t) == Len(t.rows) = 0 \/ Len(t.columns) = 0

\* lines 39-72 for one table: "skip" (line 39 or 62 false), "warn" (line 72),
\* or "ok" with the entry appended at lines 63-70
ParseTable(table, page_num, table_num) ==
    IF ~(Len(table) > 1)
    THEN [kind |-> "skip"]
    ELSE LET made == DataFrame(Tail(table), cleaned_headers(Head(table)))
             df_temp == dropna_columns(dropna_rows(made))
         IN  IF made.raised THEN [kind |-> "warn"]
             ELSE IF ~IsEmpty(df_temp) /\ Len(df_temp.columns) > 0
             THEN [kind |-> "ok",
                   df |-> [columns |-> df_temp.columns, rows |-> df_temp.rows],
                   page |-> page_num, table_num |-> table_num,
                   rows |-> Len(df_temp.rows), cols |-> Len(df_temp.columns),
                   headers |-> df_temp.columns]
             ELSE [kind |-> "skip"]

\* lines 38-72 for one page
RECURSIVE ParsePage(_, _, _)
ParsePage(page_tables, page_num, table_num) ==
    IF table_num > Len(page_tables) THEN <<>>
    ELSE <<ParseTable(page_tables[table_num], page_num, table_num)>>
         \o ParsePage(page_tables, page_num, table_num + 1)

\* lines 33-72 for all pages: the outcome of every detected table, in order
RECURSIVE ParsePages(_, _)
ParsePages(pages, page_num) ==
    IF page_num > Len(pages) THEN <<>>
    ELSE ParsePage(pages[page_num], page_num, 1) \o ParsePages(pages, page_num + 1)

\* all_tables after the loop of lines 31-72
ExtractTables(pages) ==
    SelectSeq(ParsePages(pages, 1), LAMBDA r : r.kind = "ok")

\* line 72 was reached for some table
ParseWarnings(pages) ==
    \E r \in Range(ParsePages(pages, 1)) : r.kind = "warn"

-----------------------------------------------------------------------------
(* Step 1, lines 74-137: merging or selecting, and storing the table *)

NoDf == [is_none |-> TRUE, columns |-> <<>>, rows |-> <<>>]

Stored(t) == [is_none |-> FALSE, columns |-> t.columns, rows |-> t.rows]

NoFile == [present |-> FALSE, corrupt |-> FALSE, pages |-> <<>>]

Absent == [present |-> FALSE, params |-> <<>>, value |-> <<>>]

Rendered(params, value) == [present |-> TRUE, params |-> params, value |-> value]

\* A Streamlit widget returns the value held for it when it was rendered by
\* the previous run with the same parameters (its identity), and its default
\* otherwise; a user's change is held under the identity it was made on.
WidgetValue(w, params, default) ==
    IF w.present /\ w.params = params THEN w.value ELSE default

RECURSIVE Dedupe(_)
Dedupe(s) ==
    IF s = <<>> THEN <<>>
    ELSE LET front == Dedupe(SubSeq(s, 1, Len(s) - 1))
         IN  IF IsIn(s[Len(s)], front) THEN front ELSE Append(front, s[Len(s)])

\* a row of a table with columns from_cols laid out under to_cols, matched by name
Reindex(row, from_cols, to_cols) ==
    [j \in 1..Len(to_cols) |->
        IF IsIn(to_cols[j], from_cols) THEN row[IndexOf(to_cols[j], from_cols)]
        ELSE None]

\* lines 97 and 111, pd.concat(dfs, ignore_index=True, sort=False): frames
\* with equal column lists are stacked as they are; otherwise every frame is
\* reindexed to the union of the names in order of first appearance, which
\* raises InvalidIndexError for a frame whose column names repeat
concat(dfs) ==
    IF \A k \in DOMAIN dfs : dfs[k].columns = dfs[1].columns
    THEN [raised |-> FALSE, columns |-> dfs[1].columns,
          rows |-> Flatten([k \in DOMAIN dfs |-> dfs[k].rows])]
    ELSE IF \E k \in DOMAIN dfs : ~NoDuplicates(dfs[k].columns)
    THEN [raised |-> TRUE, columns |-> <<>>, rows |-> <<>>]
    ELSE LET union == Dedupe(Flatten([k \in DOMAIN dfs |-> dfs[k].columns]))
         IN  [raised |-> FALSE, columns |-> union,
              rows |-> Flatten([k \in DOMAIN dfs |->
                         [r \in DOMAIN dfs[k].rows |->
                             Reindex(dfs[k].rows[r], dfs[k].columns, union)]])]

\* lines 92-93
same_structure(all_tables) ==
    \A k \in DOMAIN all_tables :
        Range(all_tables[k].headers) = Range(all_tables[1].headers)

\* lines 118-121: the labels shown by the table selectbox
table_options(all_tables) ==
    [k \in DOMAIN all_tables |->
        <<all_tables[k].page, all_tables[k].table_num,
          all_tables[k].rows, all_tables[k].cols>>]

MergeAll == "Merge all tables into one"

SelectOne == "Select a specific table"

\* lines 95-114, given the result of pd.concat: a raise is caught at line 135
StoreMerged(merged_df, same, old_df) ==
    IF merged_df.raised
    THEN [df |-> old_df,
          msgs |-> IF same THEN {"error_reading"}
                   ELSE {"warning_different_structure", "error_reading"}]
    ELSE [df |-> Stored(merged_df),
          msgs |-> IF same THEN {"info_merged"}
                   ELSE {"warning_different_structure", "info_merged_missing"}]

\* lines 90-114: the merge branch
MergeTables(all_tables, old_df) ==
    StoreMerged(concat([k \in DOMAIN all_tables |-> all_tables[k].df]),
                same_structure(all_tables), old_df)

\* a failed extraction that clears session_state.df
ClearOnFailure(old_df) == NoDf

\* lines 74-76 and 135-137: what a failed extraction leaves in session_state.df
KeepOnFailure(old_df) == old_df

Step1Result(t, shown, merge_w, table_w) ==
    [df |-> t, msgs |-> shown, w_merge |-> merge_w, w_table |-> table_w]

\* line 78 and the widgets rendered by lines 84 and 123
Found(r, merge_w, table_w) ==
    Step1Result(r.df, r.msgs \cup {"success_found"}, merge_w, table_w)

\* lines 81-129, more than one table: the radio, then merge or selectbox
ProcessTables(all_tables, merge_option, selected_table_idx, old_df) ==
    IF merge_option = MergeAll
    THEN MergeTables(all_tables, old_df)
    ELSE [df |-> Stored(all_tables[selected_table_idx + 1].df), msgs |-> {}]

\* lines 74-133, given all_tables
StoreTables(all_tables, merge_w, table_w, old_df) ==
    IF Len(all_tables) = 0
    THEN Step1Result(KeepOnFailure(old_df), {"error_no_tables"}, Absent, Absent)
    ELSE IF Len(all_tables) = 1
    THEN Step1Result(Stored(all_tables[1].df), {"success_found"}, Absent, Absent)
    ELSE IF WidgetValue(merge_w, <<>>, MergeAll) = MergeAll
    THEN Found(ProcessTables(all_tables, MergeAll, 0, old_df),
               Rendered(<<>>, MergeAll), Absent)
    ELSE Found(ProcessTables(all_tables, SelectOne,
                             WidgetValue(table_w, table_options(all_tables), 0), old_df),
               Rendered(<<>>, SelectOne),
               Rendered(table_options(all_tables),
                        WidgetValue(table_w, table_options(all_tables), 0)))

WithWarnings(r, warned) ==
    IF warned THEN [r EXCEPT !.msgs = @ \cup {"warning_parse"}] ELSE r

\* lines 24-137: one execution of Step 1
Step1(file, merge_w, table_w, old_df) ==
    IF ~file.present
    THEN Step1Result(old_df, {}, Absent, Absent)
    ELSE IF file.corrupt
    THEN Step1Result(KeepOnFailure(old_df), {"error_reading"}, Absent, Absent)
    ELSE WithWarnings(StoreTables(ExtractTables(file.pages), merge_w, table_w, old_df),
                      ParseWarnings(file.pages))

-----------------------------------------------------------------------------
(* Step 2, lines 150-167: the selection *)

\* lines 163-167, st.multiselect(label, columns, default=...): raises
\* StreamlitAPIException when a default value is not among the options
Multiselect(w, columns, default) ==
    IF \E k \in DOMAIN default : ~IsIn(default[k], columns)
    THEN [raised |-> TRUE, value |-> <<>>, w |-> Absent]
    ELSE [raised |-> FALSE, value |-> WidgetValue(w, <<columns, default>>, default),
          w |-> Rendered(<<columns, default>>,
                         WidgetValue(w, <<columns, default>>, default))]

\* line 163: the assignment, which a raise skips
Selected(m, old_selected) ==
    [raised |-> m.raised,
     selected_columns |-> IF m.raised THEN old_selected ELSE m.value,
     w_multi |-> m.w]

\* lines 150-167
Step2(columns, select_all, multi_w, old_selected) ==
    IF select_all
    THEN [raised |-> FALSE, selected_columns |-> columns, w_multi |-> Absent]
    ELSE Selected(Multiselect(multi_w, columns,
                              IF old_selected # <<>> THEN old_selected ELSE columns),
                  old_selected)

-----------------------------------------------------------------------------
(* Step 3, lines 170-217: the order *)

\* lines 179-180
ResyncOrder(old_order, selected) ==
    IF Range(old_order) # Range(selected) THEN selected ELSE old_order

\* lines 196-203; position and the result are 0-based as in the source
default_idx(position, order, available_cols) ==
    IF position < Len(order)
    THEN IF IsIn(order[position + 1], available_cols)
         THEN IndexOf(order[position + 1], available_cols) - 1
         ELSE 0
    ELSE 0

PosWidget(pos_w, position) ==
    IF position + 1 \in DOMAIN pos_w THEN pos_w[position + 1] ELSE Absent

\* lines 188-214: the loop from `position` on; returns reordered and the
\* selectboxes it rendered
RECURSIVE ReorderLoop(_, _, _, _, _, _, _)
ReorderLoop(position, n, order, available_cols, reordered, pos_w, rendered) ==
    IF position >= n
    THEN [reordered |-> reordered, w_pos |-> rendered]
    ELSE LET idx == default_idx(position, order, available_cols)
             params == <<available_cols, idx>>
             selected == WidgetValue(PosWidget(pos_w, position), params,
                                     available_cols[idx + 1])
         IN  ReorderLoop(position + 1, n, order, Remove(selected, available_cols),
                         Append(reordered, selected), pos_w,
                         Append(rendered, Rendered(params, selected)))

\* lines 183-217
Reorder(selected, order, pos_w) ==
    ReorderLoop(0, Len(selected), order, selected, <<>>, pos_w, <<>>)

-----------------------------------------------------------------------------
(* Step 4, lines 223-232: projection and export *)

\* the positions of the table's columns picked by df[names]: for each name in
\* turn, every column of that name
RECURSIVE Picked(_, _)
Picked(columns, names) ==
    IF names = <<>> THEN <<>>
    ELSE SelectSeq([j \in DOMAIN columns |-> j], LAMBDA j : columns[j] = Head(names))
         \o Picked(columns, Tail(names))

\* line 223, df[column_order]: KeyError when a name is no column of df
Project(t, names) ==
    IF \E k \in DOMAIN names : ~IsIn(names[k], t.columns)
    THEN [raised |-> TRUE, columns |-> <<>>, rows |-> <<>>]
    ELSE LET at == Picked(t.columns, names)
         IN  [raised |-> FALSE,
              columns |-> [j \in DOMAIN at |-> t.columns[at[j]]],
              rows |-> [r \in DOMAIN t.rows |-> [j \in DOMAIN at |-> t.rows[r][at[j]]]]]

NoExcel == [written |-> FALSE, header |-> <<>>, rows |-> <<>>]

\* lines 230-232, to_excel(index=False, sheet_name='Data')
to_excel(final_df) ==
    [written |-> TRUE, header |-> final_df.columns, rows |-> final_df.rows]

-----------------------------------------------------------------------------
(* One execution of the script, lines 12-247 *)

\* lines 223-245, given the result of the reordering loop
Export(final_df, r) ==
    IF final_df.raised
    THEN [column_order |-> r.reordered, w_pos |-> r.w_pos,
          excel |-> NoExcel, msgs |-> {"exception"}]
    ELSE [column_order |-> r.reordered, w_pos |-> r.w_pos,
          excel |-> to_excel(final_df), msgs |-> {"success_ready"}]

Step3Reordered(t, r) == Export(Project(t, r.reordered), r)

\* lines 246-247: the empty selection leaves the order as it is
EmptySelection(old_order) ==
    [column_order |-> old_order, w_pos |-> <<>>, excel |-> NoExcel,
     msgs |-> {"warning_select_one"}]

\* lines 170-247, given the table and the selection of this run
Step3(t, selected, old_order, pos_w) ==
    IF selected = <<>>
    THEN EmptySelection(old_order)
    ELSE Step3Reordered(t, Reorder(selected, ResyncOrder(old_order, selected), pos_w))

SessionAfter(s1, selected, order, select_all, multi_w, pos_w, shown, sheet) ==
    [df |-> s1.df, selected_columns |-> selected, column_order |-> order,
     w_merge |-> s1.w_merge, w_table |-> s1.w_table, w_select_all |-> select_all,
     w_multi |-> multi_w, w_pos |-> pos_w, msgs |-> s1.msgs \cup shown,
     excel |-> sheet]

ScriptAfter3(s1, s2, s3, select_all) ==
    SessionAfter(s1, s2.selected_columns, s3.column_order, select_all,
                 s2.w_multi, s3.w_pos, s3.msgs, s3.excel)

\* an exception raised by st.multiselect ends the run: nothing below line 163
\* is executed
ScriptAfter2(s1, s2, old_selected, old_order, select_all, pos_w) ==
    IF s2.raised
    THEN SessionAfter(s1, old_selected, old_order, select_all, Absent, <<>>,
                      {"exception"}, NoExcel)
    ELSE ScriptAfter3(s1, s2, Step3(s1.df, s2.selected_columns, old_order, pos_w),
                      select_all)

\* line 140: nothing below is executed while there is no table
ScriptAfter1(s1, old_selected, old_order, select_all, multi_w, pos_w) ==
    IF s1.df.is_none
    THEN SessionAfter(s1, old_selected, old_order, TRUE, Absent, <<>>, {}, NoExcel)
    ELSE ScriptAfter2(s1, Step2(s1.df.columns, select_all, multi_w, old_selected),
                      old_selected, old_order, select_all, pos_w)

Script(file, old_df, old_selected, old_order, merge_w, table_w, select_all, multi_w, pos_w) ==
    ScriptAfter1(Step1(file, merge_w, table_w, old_df),
                 old_selected, old_order, select_all, multi_w, pos_w)

-----------------------------------------------------------------------------
(* Inputs: the PDF files a user may upload *)

Txt(c) == <<c>>

\* what pdfplumber returns for a file: per page, the detected tables; a table
\* is a list of rows, a row a list of cells (text or None)
Pdf(pages) == [present |-> TRUE, corrupt |-> FALSE, pages |-> pages]

\* a file on which pdfplumber raises
CorruptFile == [present |-> TRUE, corrupt |-> TRUE, pages |-> <<>>]

TableABC == << <<Txt("A"), Txt("B"), Txt("C")>>, <<Txt("x"), Txt("y"), Txt("z")>> >>

TableAD == << <<Txt("A"), Txt("D")>>, <<Txt("x"), Txt("w")>> >>

TableAB == << <<Txt("A"), Txt("B")>>, <<Txt("x"), Txt("y")>> >>

TableBA == << <<Txt("B"), Txt("A")>>, <<Txt("y"), Txt("x")>>, <<Txt("v"), Txt("u")>> >>

TableAC == << <<Txt("A"), Txt("C")>>, <<Txt("u"), Txt("z")>> >>

TableBlank == << <<None, None>>, <<None, None>> >>

SessionFiles ==
    { Pdf(<< <<TableABC>> >>),
      Pdf(<< <<TableAD>> >>),
      Pdf(<< <<TableAB>>, <<TableBA>> >>),
      Pdf(<< <<TableAB, TableAC>> >>),
      Pdf(<< <<TableBlank>>, <<>> >>),
      CorruptFile }

-----------------------------------------------------------------------------
(* The session: one action is one interaction and the run it triggers *)

Event(kind, pos, col) == [kind |-> kind, pos |-> pos, col |-> col]

\* lines 12-17, and the first run with no file uploaded
Init ==
    /\ uploaded_file = NoFile
    /\ df = NoDf
    /\ selected_columns = <<>>
    /\ column_order = <<>>
    /\ w_merge = Absent
    /\ w_table = Absent
    /\ w_select_all = TRUE
    /\ w_multi = Absent
    /\ w_pos = <<>>
    /\ msgs = {}
    /\ excel = NoExcel
    /\ event = Event("start", 0, <<>>)

\* the script executed on the session state and the widget states given
Run(file, merge_w, table_w, select_all, multi_w, pos_w, ev) ==
    \E r \in {Script(file, df, selected_columns, column_order,
                     merge_w, table_w, select_all, multi_w, pos_w)} :
        /\ uploaded_file' = file
        /\ df' = r.df
        /\ selected_columns' = r.selected_columns
        /\ column_order' = r.column_order
        /\ w_merge' = r.w_merge
        /\ w_table' = r.w_table
        /\ w_select_all' = r.w_select_all
        /\ w_multi' = r.w_multi
        /\ w_pos' = r.w_pos
        /\ msgs' = r.msgs
        /\ excel' = r.excel
        /\ event' = ev

\* line 22: the user uploads a file
Upload ==
    \E f \in SessionFiles :
        /\ f.present
        /\ Run(f, w_merge, w_table, w_select_all, w_multi, w_pos,
               Event("upload", 0, <<>>))

\* line 22: the user removes the uploaded file
RemoveFile ==
    /\ uploaded_file.present
    /\ Run(NoFile, w_merge, w_table, w_select_all, w_multi, w_pos,
           Event("remove_file", 0, <<>>))

\* line 84: the user picks the other radio option
SetMergeOption ==
    /\ w_merge.present
    /\ \E v \in {MergeAll, SelectOne} :
        /\ v # w_merge.value
        /\ Run(uploaded_file, [w_merge EXCEPT !.value = v], w_table, w_select_all,
               w_multi, w_pos, Event("merge_option", 0, <<>>))

\* line 123: the user picks another table
SelectTable ==
    /\ w_table.present
    /\ \E i \in 0..(Len(w_table.params) - 1) :
        /\ i # w_table.value
        /\ Run(uploaded_file, w_merge, [w_table EXCEPT !.value = i], w_select_all,
               w_multi, w_pos, Event("select_table", i, <<>>))

\* line 156: the user ticks or unticks 'Select All Columns'
ToggleSelectAll ==
    /\ ~df.is_none
    /\ Run(uploaded_file, w_merge, w_table, ~w_select_all, w_multi, w_pos,
           Event("select_all", 0, <<>>))

\* line 163: the user adds one option to the multiselect
MultiselectAdd ==
    /\ w_multi.present
    /\ \E k \in DOMAIN w_multi.params[1] :
        LET c == w_multi.params[1][k]
        IN  /\ Count(c, w_multi.value) < Count(c, w_multi.params[1])
            /\ Run(uploaded_file, w_merge, w_table, w_select_all,
                   [w_multi EXCEPT !.value = Append(@, c)], w_pos,
                   Event("multiselect_add", 0, c))

\* line 163: the user removes one chosen option from the multiselect
MultiselectRemove ==
    /\ w_multi.present
    /\ \E k \in DOMAIN w_multi.value :
        Run(uploaded_file, w_merge, w_table, w_select_all,
            [w_multi EXCEPT !.value = Remove(w_multi.value[k], @)], w_pos,
            Event("multiselect_remove", 0, w_multi.value[k]))

\* line 163: the user clears the multiselect
MultiselectClear ==
    /\ w_multi.present
    /\ w_multi.value # <<>>
    /\ Run(uploaded_file, w_merge, w_table, w_select_all,
           [w_multi EXCEPT !.value = <<>>], w_pos,
           Event("multiselect_clear", 0, <<>>))

\* line 205: the user picks another column in the selectbox of a position
\* (0-based in the event, as in the source)
ChooseColumn ==
    \E p \in DOMAIN w_pos :
        \E k \in DOMAIN w_pos[p].params[1] :
            LET c == w_pos[p].params[1][k]
            IN  /\ c # w_pos[p].value
                /\ Run(uploaded_file, w_merge, w_table, w_select_all, w_multi,
                       [w_pos EXCEPT ![p].value = c],
                       Event("choose", p - 1, c))

\* the user reruns the script without changing a widget
Rerun ==
    Run(uploaded_file, w_merge, w_table, w_select_all, w_multi, w_pos,
        Event("rerun", 0, <<>>))

Next ==
    \/ Upload
    \/ RemoveFile
    \/ SetMergeOption
    \/ SelectTable
    \/ ToggleSelectAll
    \/ MultiselectAdd
    \/ MultiselectRemove
    \/ MultiselectClear
    \/ ChooseColumn
    \/ Rerun

Spec == Init /\ [][Next]_vars

-----------------------------------------------------------------------------
(* Extraction alone: the first upload of a session, over every file made   *)
(* of at most two detected tables within the bounds below                  *)

\* cells per row, of the header and of the data rows
MaxWidth == 2

\* data rows of a table
MaxRows == 2

SeqsUpTo(S, n) == UNION {[1..k -> S] : k \in 1..n}

HeaderCells == {None, <<" ">>, Txt("A"), <<"A", " ">>, <<"Column_", "2">>}

DataCells == {None, <<>>, Txt("x")}

Headers == SeqsUpTo(HeaderCells, MaxWidth)

DataRows == SeqsUpTo(DataCells, MaxWidth)

\* a header, then up to MaxRows data rows of any width up to MaxWidth
RawTables ==
    {<<h>> \o rows : h \in Headers, rows \in {<<>>} \cup SeqsUpTo(DataRows, MaxRows)}

\* a header and one data row: the tables of two-table files
PairTables ==
    {<<h, r>> : h \in Headers, r \in SeqsUpTo({None, Txt("x")}, MaxWidth)}

\* one table; two tables on one page; two tables on two pages
IsBoundedFile(f) ==
    \/ \E t \in RawTables : f = Pdf(<< <<t>> >>)
    \/ \E t1 \in PairTables, t2 \in PairTables : f = Pdf(<< <<t1, t2>> >>)
    \/ \E t1 \in PairTables, t2 \in PairTables : f = Pdf(<< <<t1>>, <<t2>> >>)

\* the user has chosen a file in a fresh session; the script has not run yet
InitExtract ==
    /\ IsBoundedFile(uploaded_file)
    /\ df = NoDf
    /\ selected_columns = <<>>
    /\ column_order = <<>>
    /\ w_merge = Absent
    /\ w_table = Absent
    /\ w_select_all = TRUE
    /\ w_multi = Absent
    /\ w_pos = <<>>
    /\ msgs = {}
    /\ excel = NoExcel
    /\ event = Event("file_chosen", 0, <<>>)

\* the run triggered by the upload
FirstRun ==
    /\ event.kind = "file_chosen"
    /\ Run(uploaded_file, w_merge, w_table, w_select_all, w_multi, w_pos,
           Event("upload", 0, <<>>))

NextExtract ==
    \/ FirstRun
    \/ SetMergeOption
    \/ SelectTable

SpecExtract == InitExtract /\ [][NextExtract]_vars

-----------------------------------------------------------------------------
(* Properties of the session (specification Spec) *)

Errors == {"error_reading", "error_no_tables"}

Before(a, b, s) == IndexOf(a, s) < IndexOf(b, s)

\* C1: in every state column_order is a permutation of selected_columns
\* (same elements, each exactly once), also after every column is deselected.
C1_OrderIsPermutationOfSelection ==
    IsPermutation(column_order, selected_columns)

\* C2: choosing column X at position p, where X was at position q and Y at
\* position p, yields the column_order with X at p, Y at q and every other
\* position unchanged.
C2_ChoosingSwaps ==
    [][(/\ event'.kind = "choose"
        /\ event'.pos + 1 \in DOMAIN column_order
        /\ IsIn(event'.col, column_order)
        /\ event'.pos + 1 \in DOMAIN column_order'
        /\ column_order'[event'.pos + 1] = event'.col)
       => column_order' =
            [column_order EXCEPT
                ![IndexOf(event'.col, column_order)] = column_order[event'.pos + 1],
                ![event'.pos + 1] = event'.col]]_vars

\* C3: whenever selected_columns changes to a different set of columns of the
\* same table (and the order is rebuilt, lines 170-217), the rebuilt column_order holds exactly the new set
\* and keeps the retained columns in the relative order they had in the
\* previous column_order.
C3_RebuildKeepsRelativeOrder ==
    [][(/\ Range(selected_columns') # Range(selected_columns)
        /\ selected_columns' # <<>>
        /\ df' = df)
       => /\ IsPermutation(column_order', selected_columns')
          /\ \A a, b \in Range(column_order) \cap Range(selected_columns') :
                Before(a, b, column_order) => Before(a, b, column_order')]_vars

\* C4: in every state selected_columns names only columns of the current
\* table, also after a new upload replaces the table while an explicit
\* selection made on the previous table is held.
C4_SelectionWithinTable ==
    \A k \in DOMAIN selected_columns : IsIn(selected_columns[k], df.columns)

UploadFails(file) ==
    file.present /\ (file.corrupt \/ ExtractTables(file.pages) = <<>>)

\* C5: a run whose upload fails (the PDF library raises, or no table
\* survives) reports an error and leaves session_state.df as it was; a prior
\* non-empty selection and its order are kept and exported again.
C5_FailedUploadKeepsTable ==
    [][UploadFails(uploaded_file')
       => /\ msgs' \cap Errors # {}
          /\ df' = df
          /\ (event'.kind = "upload" /\ excel.written)
             => /\ selected_columns' = selected_columns
                /\ column_order' = column_order
                /\ excel' = excel]_vars

\* C5 witness: a failed upload in a session that already held a table, with
\* the earlier table exported again
C5_Witness ==
    /\ event.kind = "upload"
    /\ UploadFails(uploaded_file)
    /\ ~df.is_none
    /\ excel.written
    /\ excel.header # df.columns

-----------------------------------------------------------------------------
(* Properties of the extraction (specification SpecExtract) *)

Survivors == ExtractTables(uploaded_file.pages)

HasRun == event.kind # "file_chosen"

RawTableAt(page, table_num) == uploaded_file.pages[page][table_num]

Survives(page, table_num) ==
    \E k \in DOMAIN Survivors :
        Survivors[k].page = page /\ Survivors[k].table_num = table_num

\* every data row has as many cells as the header
WellFormed(table) ==
    Len(table) > 1 /\ \A i \in 2..Len(table) : Len(table[i]) = Len(table[1])

\* some data cell is not None
HasData(table) ==
    \E i \in 2..Len(table) : \E j \in DOMAIN table[i] : table[i][j] # None

\* where the rows of the k-th surviving table start in the merged table
Offset(k) == SeqSum([i \in 1..(k - 1) |-> Survivors[i].rows])

\* a merged row holds the cells of its source row under the same names, and
\* None under the names its source table lacks
RowMatches(merged_row, merged_cols, row, cols) ==
    IF merged_cols = cols THEN merged_row = row
    ELSE merged_row = Reindex(row, cols, merged_cols)

RowsInExtractionOrder ==
    /\ Len(df.rows) = SeqSum([k \in DOMAIN Survivors |-> Survivors[k].rows])
    /\ \A k \in DOMAIN Survivors : \A r \in DOMAIN Survivors[k].df.rows :
          RowMatches(df.rows[Offset(k) + r], df.columns,
                     Survivors[k].df.rows[r], Survivors[k].headers)

MergeChosen ==
    /\ HasRun
    /\ Len(Survivors) > 1
    /\ w_merge.present
    /\ w_merge.value = MergeAll

\* C7: several tables, merge chosen, differing column sets: the stored table
\* has the union of the column sets, rows of a table lacking a column are
\* empty there, and a warning (no error) is shown.
C7_UnionMerge ==
    (MergeChosen /\ ~same_structure(Survivors))
    => /\ "warning_different_structure" \in msgs
       /\ msgs \cap Errors = {}
       /\ ~df.is_none
       /\ Range(df.columns) = UNION {Range(Survivors[k].headers) : k \in DOMAIN Survivors}
       /\ RowsInExtractionOrder

\* C8: several tables with identical column-name sets, merge chosen: the
\* stored table has that column set, as many rows as the tables together,
\* and the rows in extraction order.
C8_SameStructureMerge ==
    (MergeChosen /\ same_structure(Survivors))
    => /\ msgs \cap Errors = {}
       /\ ~df.is_none
       /\ Range(df.columns) = Range(Survivors[1].headers)
       /\ RowsInExtractionOrder

\* C9: a detected table is excluded exactly when it is malformed (a data row
\* whose cell count differs from the header's) or has no data, every other
\* table is extracted, and 'no tables found' is reported exactly when none
\* survives.
C9_MalformedTablesExcluded ==
    HasRun
    => /\ \A p \in DOMAIN uploaded_file.pages : \A t \in DOMAIN uploaded_file.pages[p] :
             Survives(p, t) <=> (WellFormed(RawTableAt(p, t)) /\ HasData(RawTableAt(p, t)))
       /\ ("error_no_tables" \in msgs) <=> (Survivors = <<>>)

\* C10: after header cleaning the column names of every extracted table are
\* pairwise distinct, so the projection onto column_order has one column per
\* name.
C10_HeadersDistinct ==
    HasRun
    => /\ \A k \in DOMAIN Survivors : NoDuplicates(Survivors[k].headers)
       /\ excel.written => Len(excel.header) = Len(column_order)

====
